---- MODULE Spec2Model ----
(***************************************************************************)
(* The N-body gravitational simulation of                                  *)
(* examples/07-scientific-compute/simulation.py as a state machine.        *)
(*                                                                         *)
(* Numbers.  The program computes in IEEE doubles; the model computes on   *)
(* an integer grid of model units.  Addition, subtraction and              *)
(* multiplication are exact on the grid, a true division `a / b` is the    *)
(* exact quotient rounded to the nearest grid value (ties to even, as      *)
(* IEEE rounds), and math.sqrt is the root rounded down to the grid, which *)
(* keeps the property of the double sqrt that the code's comparison        *)
(* relies on: sqrt(s) < r_min exactly when s < r_min**2.  A division by    *)
(* zero raises ZeroDivisionError, as Python's float division does.         *)
(*                                                                         *)
(* Units.  The model's unit of length is such that the softening floor     *)
(* 1e6 of the code is RMin units; the units of mass and time are such      *)
(* that the gravitational constant is G and the central mass SunMass.      *)
(*                                                                         *)
(* Granularity.  One action per loop iteration of the code: one pair of    *)
(* the pair loops, one body of the integrator loops.  pc is the position   *)
(* of run_simulation; an exception leaves pc where it was raised and sets  *)
(* error.                                                                  *)
(***************************************************************************)
EXTENDS Integers, Sequences, FiniteSets, TLC

VARIABLES
    num_bodies,   \* argument of run_simulation
    num_steps,    \* argument of run_simulation
    dt,           \* argument of run_simulation
    pc,           \* position of run_simulation
    error,        \* "none", or the exception that ended the run
    bodies,       \* the body list: a function 0..n-1 -> Body
    bodies0,      \* history: the body list as create_solar_system returned it
    bodies_pre,   \* history: the body list when the running (or last) step began
    forces,       \* compute_forces' accumulator: a function 0..n-1 -> vector
    cur,          \* the pair <<i, j>> the running pair loop evaluates next
    k,            \* the index the running integrator loop updates next
    step,         \* iterations of the step loop completed
    evals,        \* history: pair evaluations of the running (or last) force pass
    locals,       \* compute_forces' local variables after its last pair
    excluded,     \* history: the pairs the last energy pass left out of the potential
    kinetic,      \* compute_total_energy's kinetic
    potential,    \* compute_total_energy's potential
    e_initial,    \* (ke_initial, pe_initial, total_initial)
    e_final,      \* (ke_final, pe_final, total_final)
    init_time,    \* clock difference of line 191
    sim_time,     \* clock difference of line 222
    result,       \* the dictionary run_simulation returns
    energy_calls, \* history: calls of compute_total_energy begun
    visited,      \* history: the pairs the running (or last) pair loop evaluated, in order
    trace,        \* history: the body list after each completed step
    seeded,       \* the draws random.seed(42) makes the generator yield, once known
    run,          \* the number of the running call of run_simulation
    first,        \* history: what the first call produced, once a second has begun
    pair_evals    \* history: pair evaluations of compute_forces in the whole run

vars == <<num_bodies, num_steps, dt, pc, error, bodies, bodies0, bodies_pre, forces,
          cur, k,
          step, evals, locals, excluded, kinetic, potential, e_initial, e_final,
          init_time, sim_time, result, energy_calls, visited, trace, seeded, run,
          first, pair_evals>>

---------------------------------------------------------------------------
(* Bounds of the model *)

MaxBodies == 3
MaxSteps == 2
MaxTick == 1

(* Program constants, in model units *)

G == 8
RMin == 2
SunMass == 3
ProgressEvery == 10
\* The length in metres the comment of line 97 gives for the softening floor
OneKilometre == 1000

\* Line 97: the floor of 1e6 metres is RMin units of length
MetresPerUnit == 1000000 \div RMin

(* The inputs the model draws *)

Dts == {-1, 0, 1}
\* Orbital radii below, at and above the softening floor
Radii == {1, 2, 3}
\* <<theta, phi>> in quarter turns: on the x axis, and on the z axis
Angles == {<<0, 1>>, <<1, 0>>}
\* The values one pass of the generator loop draws from random.uniform
Draws ==
    [radius : Radii, angle : Angles, mass : {1}]
        \cup [radius : {1}, angle : Angles, mass : {2}]

---------------------------------------------------------------------------
(* Arithmetic *)

Abs(a) == IF a < 0 THEN -a ELSE a

Sq(a) == a * a

\* a / b for b # 0: the quotient rounded to the nearest integer, ties to even
FDiv(a, b) ==
    LET q == Abs(a) \div Abs(b)
        rem == Abs(a) % Abs(b)
        up == (2 * rem > Abs(b)) \/ (2 * rem = Abs(b) /\ q % 2 = 1)
        m == IF up THEN q + 1 ELSE q
    IN IF (a < 0) = (b < 0) THEN m ELSE -m

\* math.sqrt(s) for s >= 0, rounded down
Sqrt(s) == CHOOSE r \in 0..s : r * r <= s /\ (r + 1) * (r + 1) > s

\* math.sin and math.cos of q quarter turns
Sin(q) == CASE q % 4 = 0 -> 0 [] q % 4 = 1 -> 1 [] q % 4 = 2 -> 0 [] OTHER -> -1

Cos(q) == Sin(q + 1)

ZeroVec == <<0, 0, 0>>

LenOf(f) == Cardinality(DOMAIN f)

---------------------------------------------------------------------------
(* Body and create_solar_system *)

Body(x, y, z, vx, vy, vz, mass) ==
    [x |-> x, y |-> y, z |-> z, vx |-> vx, vy |-> vy, vz |-> vz, mass |-> mass]

kinetic_energy(b) ==
    LET v_squared == Sq(b.vx) + Sq(b.vy) + Sq(b.vz)
    IN FDiv(b.mass * v_squared, 2)

Sun == Body(0, 0, 0, 0, 0, 0, SunMass)

\* One pass of the generator loop, for the draw d of random.uniform's values
Orbiter(d) ==
    LET radius == d.radius
        theta == d.angle[1]
        phi == d.angle[2]
        v_orbital == Sqrt(FDiv(G * SunMass, radius))
    IN Body(radius * Sin(phi) * Cos(theta),
            radius * Sin(phi) * Sin(theta),
            radius * Cos(phi),
            (-v_orbital) * Sin(theta),
            v_orbital * Cos(theta),
            0,
            d.mass)

\* SeededDraws without the call of random.seed: the generator goes on from
\* where the last call left it
UnseededDraws(n, known) == [1..(IF n >= 1 THEN n - 1 ELSE 0) -> Draws]

\* Line 41: the draws of one call.  random.seed(42) makes the generator yield
\* the same values at every call: any values at the first, the known ones
\* afterwards.
SeededDraws(n, known) ==
    IF known = {} THEN [1..(IF n >= 1 THEN n - 1 ELSE 0) -> Draws] ELSE known

\* create_solar_system with one pass of the generator loop fewer
create_solar_system_one_short(n, draw) ==
    [b \in 0..(IF n >= 2 THEN n - 2 ELSE 0) |->
        IF b = 0 THEN Sun ELSE Orbiter(draw[b])]

\* The central body, then range(num_bodies - 1) orbiting bodies
create_solar_system(n, draw) ==
    [b \in 0..(IF n >= 1 THEN n - 1 ELSE 0) |->
        IF b = 0 THEN Sun ELSE Orbiter(draw[b])]

---------------------------------------------------------------------------
(* The pair loops: for i in range(n): for j in range(i + 1, n) *)

PairsDone(n) == <<n, n>>

FirstPair(n) == IF n >= 2 THEN <<0, 1>> ELSE PairsDone(n)

\* NextPair with the outer loop left after its first pass
NextPairInnerOnly(p, n) ==
    IF p[2] + 1 < n THEN <<p[1], p[2] + 1>> ELSE PairsDone(n)

\* NextPair with the inner loop starting at j = i
NextPairWithSelf(p, n) ==
    IF p[2] + 1 < n THEN <<p[1], p[2] + 1>>
    ELSE IF p[1] + 1 < n THEN <<p[1] + 1, p[1] + 1>>
    ELSE PairsDone(n)

NextPair(p, n) ==
    IF p[2] + 1 < n THEN <<p[1], p[2] + 1>>
    ELSE IF p[1] + 2 < n THEN <<p[1] + 1, p[1] + 2>>
    ELSE PairsDone(n)

---------------------------------------------------------------------------
(* compute_forces *)

\* Softened without the softening test
SoftenedNever(r, r_squared) == [r |-> r, r_squared |-> r_squared, clamped |-> FALSE]

\* Lines 96-99: r and r_squared after the softening test
Softened(r, r_squared) ==
    IF r < RMin THEN [r |-> RMin, r_squared |-> Sq(RMin), clamped |-> TRUE]
    ELSE [r |-> r, r_squared |-> r_squared, clamped |-> FALSE]

\* Lines 88-99
Separation(bi, bj) ==
    LET dx == bj.x - bi.x
        dy == bj.y - bi.y
        dz == bj.z - bi.z
        r_squared == Sq(dx) + Sq(dy) + Sq(dz)
        s == Softened(Sqrt(r_squared), r_squared)
    IN [dx |-> dx, dy |-> dy, dz |-> dz, r |-> s.r, r_squared |-> s.r_squared,
        clamped |-> s.clamped]

\* PairForce pushing a clamped pair apart along the x axis with the force at
\* the floor
PairForceAlongX(bi, bj, s) ==
    LET force_magnitude == FDiv(G * bi.mass * bj.mass, s.r_squared)
    IN [force_magnitude |-> force_magnitude,
        fx |-> IF s.clamped THEN force_magnitude ELSE FDiv(force_magnitude * s.dx, s.r),
        fy |-> FDiv(force_magnitude * s.dy, s.r),
        fz |-> FDiv(force_magnitude * s.dz, s.r)]

\* Lines 102-107, for divisors that are not zero
PairForce(bi, bj, s) ==
    LET force_magnitude == FDiv(G * bi.mass * bj.mass, s.r_squared)
    IN [force_magnitude |-> force_magnitude,
        fx |-> FDiv(force_magnitude * s.dx, s.r),
        fy |-> FDiv(force_magnitude * s.dy, s.r),
        fz |-> FDiv(force_magnitude * s.dz, s.r)]

\* Line 110: the accumulator entry of body i of the pair
AccumulateI(f, pf) == <<f[1] + pf.fx, f[2] + pf.fy, f[3] + pf.fz>>

\* AccumulateJ adding the pair's force instead of subtracting it
AccumulateJSameSign(f, pf) == <<f[1] + pf.fx, f[2] + pf.fy, f[3] + pf.fz>>

\* AccumulateJ leaving the z component of body j alone
AccumulateJWithoutZ(f, pf) == <<f[1] - pf.fx, f[2] - pf.fy, f[3]>>

\* Line 111: the accumulator entry of body j of the pair
AccumulateJ(f, pf) == <<f[1] - pf.fx, f[2] - pf.fy, f[3] - pf.fz>>

\* ZeroForces with one entry more
ZeroForcesOneMore(n) == [b \in 0..n |-> ZeroVec]

\* Line 82: the accumulator of n zero vectors
ZeroForces(n) == [b \in 0..(n - 1) |-> ZeroVec]

RECURSIVE ForcePassFrom(_, _, _)
\* Lines 85-111: the pair loops from the pair p on, acc being the accumulator
ForcePassFrom(bs, acc, p) ==
    IF p = PairsDone(LenOf(bs)) THEN acc
    ELSE LET i == p[1]
             j == p[2]
             pf == PairForce(bs[i], bs[j], Separation(bs[i], bs[j]))
         IN ForcePassFrom(bs,
                          [acc EXCEPT ![i] = AccumulateI(acc[i], pf),
                                      ![j] = AccumulateJ(acc[j], pf)],
                          NextPair(p, LenOf(bs)))

\* compute_forces(bodies), for bodies on which it raises nothing
compute_forces(bs) ==
    ForcePassFrom(bs, ZeroForces(LenOf(bs)), FirstPair(LenOf(bs)))

NoLocals ==
    [i |-> -1, j |-> -1, dx |-> 0, dy |-> 0, dz |-> 0, r |-> 0, r_squared |-> 0,
     clamped |-> FALSE, force_magnitude |-> 0, fx |-> 0, fy |-> 0, fz |-> 0]

---------------------------------------------------------------------------
(* update_velocities, update_positions *)

\* NewVelocity taking the force for the acceleration
NewVelocityNoMass(b, f, h) ==
    [b EXCEPT !.vx = b.vx + f[1] * h, !.vy = b.vy + f[2] * h, !.vz = b.vz + f[3] * h]

\* NewVelocity moving the body by its acceleration as well
NewVelocityMoves(b, f, h) ==
    LET ax == FDiv(f[1], b.mass)
        ay == FDiv(f[2], b.mass)
        az == FDiv(f[3], b.mass)
    IN [b EXCEPT !.vx = b.vx + ax * h, !.vy = b.vy + ay * h, !.vz = b.vz + az * h,
                 !.x = b.x + ax * h]

\* Lines 122-132, for a mass that is not zero
NewVelocity(b, f, h) ==
    LET ax == FDiv(f[1], b.mass)
        ay == FDiv(f[2], b.mass)
        az == FDiv(f[3], b.mass)
    IN [b EXCEPT !.vx = b.vx + ax * h, !.vy = b.vy + ay * h, !.vz = b.vz + az * h]

\* NewPosition with the body losing a unit of mass as it moves
NewPositionLosesMass(b, h) ==
    [b EXCEPT !.x = b.x + b.vx * h, !.y = b.y + b.vy * h, !.z = b.z + b.vz * h,
              !.mass = b.mass - 1]

\* Lines 140-142
NewPosition(b, h) ==
    [b EXCEPT !.x = b.x + b.vx * h, !.y = b.y + b.vy * h, !.z = b.z + b.vz * h]

---------------------------------------------------------------------------
(* compute_total_energy *)

RECURSIVE SumKinetic(_, _)
\* Line 152: the sum over the bodies 0..n-1, in order
SumKinetic(bs, n) ==
    IF n = 0 THEN 0 ELSE SumKinetic(bs, n - 1) + kinetic_energy(bs[n - 1])

\* Line 162
Distance(bi, bj) ==
    Sqrt(Sq(bj.x - bi.x) + Sq(bj.y - bi.y) + Sq(bj.z - bi.z))

\* Counted with the pair at the floor entering the potential
CountedFromFloor(r) == r >= RMin

\* Line 164: whether the pair enters the potential
Counted(r) == r > RMin

\* Line 165
PairPotential(bi, bj, r) == FDiv(G * bi.mass * bj.mass, r)

NoSample == [kinetic |-> 0, potential |-> 0, total |-> 0, taken |-> FALSE]

\* Sample with the kinetic energy for the total
SampleKineticOnly(ke, pe) ==
    [kinetic |-> ke, potential |-> pe, total |-> ke, taken |-> TRUE]

\* Line 168: the tuple compute_total_energy returns
Sample(ke, pe) == [kinetic |-> ke, potential |-> pe, total |-> ke + pe, taken |-> TRUE]

---------------------------------------------------------------------------
(* run_simulation *)

\* LoopContinues leaving the loop one step early
LoopStopsEarly(s, n) == s + 1 < n

\* LoopContinues taking one step more
LoopRunsOnceMore(s, n) == s <= n

\* LoopContinues counting up to the magnitude of num_steps
LoopToMagnitude(s, n) == s < Abs(n)

\* Line 205: whether range(num_steps) yields another step
LoopContinues(s, n) == s < n

\* AfterStep with a sample taken after the step
AfterStepSample == "energy_final"

\* Line 205: where run_simulation continues after a completed step
AfterStep == "loop"

\* Line 244: the 'Force calculations' figure of the summary
ForceCalculations == ((num_bodies * (num_bodies - 1)) \div 2) * num_steps

\* The driver's state (section 4.4) at each position of run_simulation
Phase ==
    CASE pc = "start" -> "Uninitialized"
      [] pc \in {"energy_initial", "energy_initial_pairs"} -> "Ready"
      [] pc \in {"loop", "forces", "velocities", "positions"} -> "Running"
      [] OTHER -> "Completed"

PhaseRank ==
    CASE Phase = "Uninitialized" -> 0
      [] Phase = "Ready" -> 1
      [] Phase = "Running" -> 2
      [] OTHER -> 3

NoResult == [returned |-> FALSE]

NoFirst == [recorded |-> FALSE]

Init ==
    /\ num_bodies \in 0..MaxBodies
    /\ num_steps \in -1..MaxSteps
    /\ dt \in Dts
    /\ pc = "start"
    /\ error = "none"
    /\ bodies = <<>>
    /\ bodies0 = <<>>
    /\ bodies_pre = <<>>
    /\ forces = <<>>
    /\ cur = <<0, 0>>
    /\ k = 0
    /\ step = 0
    /\ evals = 0
    /\ locals = NoLocals
    /\ excluded = {}
    /\ kinetic = 0
    /\ potential = 0
    /\ e_initial = NoSample
    /\ e_final = NoSample
    /\ init_time = 0
    /\ sim_time = 0
    /\ result = NoResult
    /\ energy_calls = 0
    /\ visited = <<>>
    /\ trace = <<>>
    /\ seeded = {}
    /\ run = 1
    /\ first = NoFirst
    /\ pair_evals = 0

\* Lines 188-192: bodies = create_solar_system(num_bodies).  Nothing reads
\* init_time before line 223, where the model draws it.
Initialize ==
    /\ pc = "start" /\ error = "none"
    /\ \E draw \in SeededDraws(num_bodies, seeded) :
          /\ bodies' = create_solar_system(num_bodies, draw)
          /\ seeded' = {draw}
    /\ bodies0' = bodies'
    /\ pc' = "energy_initial"
    /\ UNCHANGED <<bodies_pre, num_bodies, num_steps, dt, error, forces, cur, k, step, evals,
                   locals, excluded, kinetic, potential, e_initial, e_final,
                   init_time, sim_time, result, energy_calls, visited, trace, run, first,
                   pair_evals>>

\* Lines 149-156 of a call of compute_total_energy
EnergyBegin(at, pairs) ==
    /\ pc = at /\ error = "none"
    /\ kinetic' = SumKinetic(bodies, LenOf(bodies))
    /\ potential' = 0
    /\ cur' = FirstPair(LenOf(bodies))
    /\ excluded' = {}
    /\ visited' = <<>>
    /\ energy_calls' = energy_calls + 1
    /\ pc' = pairs
    /\ UNCHANGED <<num_bodies, num_steps, dt, error, bodies, bodies0, bodies_pre, forces, k,
                   step, evals, locals, e_initial, e_final, init_time, sim_time,
                   result, trace, seeded, run, first, pair_evals>>

\* EnergyPair keeping the displacement of the pair in body i
EnergyPairInPlace(pairs) ==
    /\ pc = pairs /\ error = "none"
    /\ cur # PairsDone(LenOf(bodies))
    /\ LET bi == bodies[cur[1]]
           bj == bodies[cur[2]]
           r == Distance(bi, bj)
       IN /\ IF Counted(r)
             THEN /\ potential' = potential - PairPotential(bi, bj, r)
                  /\ excluded' = excluded
             ELSE /\ potential' = potential
                  /\ excluded' = excluded \cup {cur}
          /\ bodies' = [bodies EXCEPT ![cur[1]].x = bj.x - bi.x]
    /\ cur' = NextPair(cur, LenOf(bodies))
    /\ visited' = Append(visited, cur)
    /\ UNCHANGED <<num_bodies, num_steps, dt, pc, error, bodies0, bodies_pre, forces,
                   k, step, evals, locals, kinetic, e_initial, e_final, init_time,
                   sim_time, result, energy_calls, trace, seeded, run, first, pair_evals>>

\* Lines 159-165: one pair of the potential loop
EnergyPair(pairs) ==
    /\ pc = pairs /\ error = "none"
    /\ cur # PairsDone(LenOf(bodies))
    /\ LET bi == bodies[cur[1]]
           bj == bodies[cur[2]]
           r == Distance(bi, bj)
       IN IF Counted(r)
          THEN /\ potential' = potential - PairPotential(bi, bj, r)
               /\ excluded' = excluded
          ELSE /\ potential' = potential
               /\ excluded' = excluded \cup {cur}
    /\ cur' = NextPair(cur, LenOf(bodies))
    /\ visited' = Append(visited, cur)
    /\ UNCHANGED <<num_bodies, num_steps, dt, pc, error, bodies, bodies0, bodies_pre, forces,
                   k, step, evals, locals, kinetic, e_initial, e_final, init_time,
                   sim_time, result, energy_calls, trace, seeded, run, first, pair_evals>>

\* Lines 167-168 and 195: the pre-run sample
EnergyInitialReturn ==
    /\ pc = "energy_initial_pairs" /\ error = "none"
    /\ cur = PairsDone(LenOf(bodies))
    /\ e_initial' = Sample(kinetic, potential)
    /\ pc' = "loop"
    /\ UNCHANGED <<num_bodies, num_steps, dt, error, bodies, bodies0, bodies_pre, forces, cur,
                   k, step, evals, locals, excluded, kinetic, potential, e_final,
                   init_time, sim_time, result, energy_calls,
                   visited, trace, seeded, run, first, pair_evals>>

\* Lines 167-168 and 226: the post-run sample
EnergyFinalReturn ==
    /\ pc = "energy_final_pairs" /\ error = "none"
    /\ cur = PairsDone(LenOf(bodies))
    /\ e_final' = Sample(kinetic, potential)
    /\ pc' = "summary"
    /\ UNCHANGED <<num_bodies, num_steps, dt, error, bodies, bodies0, bodies_pre, forces, cur,
                   k, step, evals, locals, excluded, kinetic, potential, e_initial,
                   init_time, sim_time, result, energy_calls,
                   visited, trace, seeded, run, first, pair_evals>>

\* StepBegin with an accumulator that is created once and kept between the steps
StepBeginKeepsForces ==
    /\ pc = "loop" /\ error = "none"
    /\ LoopContinues(step, num_steps)
    /\ forces' = IF step = 0 THEN ZeroForces(LenOf(bodies)) ELSE forces
    /\ cur' = FirstPair(LenOf(bodies))
    /\ evals' = 0
    /\ visited' = <<>>
    /\ bodies_pre' = bodies
    /\ pc' = "forces"
    /\ UNCHANGED <<num_bodies, num_steps, dt, error, bodies, bodies0, k, step,
                   locals, excluded, kinetic, potential, e_initial, e_final,
                   init_time, sim_time, result, energy_calls, trace, seeded, run,
                   first, pair_evals>>

\* Lines 205-207 and 79-82: the loop takes another step and compute_forces starts
StepBegin ==
    /\ pc = "loop" /\ error = "none"
    /\ LoopContinues(step, num_steps)
    /\ forces' = ZeroForces(LenOf(bodies))
    /\ cur' = FirstPair(LenOf(bodies))
    /\ evals' = 0
    /\ visited' = <<>>
    /\ bodies_pre' = bodies
    /\ pc' = "forces"
    /\ UNCHANGED <<num_bodies, num_steps, dt, error, bodies, bodies0, k, step,
                   locals, excluded, kinetic, potential, e_initial, e_final,
                   init_time, sim_time, result, energy_calls, trace, seeded, run, first,
                   pair_evals>>

\* Lines 205 and 222-223: the loop is exhausted; the two clock differences, in
\* ticks of the clock's resolution
LoopEnd ==
    /\ pc = "loop" /\ error = "none"
    /\ ~LoopContinues(step, num_steps)
    /\ \E t0 \in 0..MaxTick, t1 \in 0..MaxTick :
          /\ init_time' = t0
          /\ sim_time' = t1
    /\ pc' = "energy_final"
    /\ UNCHANGED <<num_bodies, num_steps, dt, error, bodies, bodies0, bodies_pre, forces, cur,
                   k, step, evals, locals, excluded, kinetic, potential, e_initial,
                   e_final, result, energy_calls,
                   visited, trace, seeded, run, first, pair_evals>>

\* Lines 88-111: one pair of compute_forces
ForcePair ==
    /\ pc = "forces" /\ error = "none"
    /\ cur # PairsDone(LenOf(bodies))
    /\ LET i == cur[1]
           j == cur[2]
           s == Separation(bodies[i], bodies[j])
       IN IF s.r_squared = 0 \/ s.r = 0
          THEN /\ error' = "ZeroDivisionError"
               /\ locals' = [NoLocals EXCEPT !.i = i, !.j = j, !.dx = s.dx,
                                             !.dy = s.dy, !.dz = s.dz, !.r = s.r,
                                             !.r_squared = s.r_squared,
                                             !.clamped = s.clamped]
               /\ UNCHANGED <<forces, cur, evals, visited, pair_evals>>
          ELSE LET pf == PairForce(bodies[i], bodies[j], s)
               IN /\ forces' = [forces EXCEPT ![i] = AccumulateI(forces[i], pf),
                                              ![j] = AccumulateJ(forces[j], pf)]
                  /\ locals' = [i |-> i, j |-> j, dx |-> s.dx, dy |-> s.dy,
                                dz |-> s.dz, r |-> s.r, r_squared |-> s.r_squared,
                                clamped |-> s.clamped,
                                force_magnitude |-> pf.force_magnitude,
                                fx |-> pf.fx, fy |-> pf.fy, fz |-> pf.fz]
                  /\ cur' = NextPair(cur, LenOf(bodies))
                  /\ evals' = evals + 1
                  /\ visited' = Append(visited, cur)
                  /\ pair_evals' = pair_evals + 1
                  /\ error' = error
    /\ UNCHANGED <<num_bodies, num_steps, dt, pc, bodies, bodies0, bodies_pre, k, step,
                   excluded, kinetic, potential, e_initial, e_final, init_time,
                   sim_time, result, energy_calls, trace, seeded, run, first>>

\* Lines 113 and 210: compute_forces returns, update_velocities starts
ForcesReturn ==
    /\ pc = "forces" /\ error = "none"
    /\ cur = PairsDone(LenOf(bodies))
    /\ k' = 0
    /\ pc' = "velocities"
    /\ UNCHANGED <<num_bodies, num_steps, dt, error, bodies, bodies0, bodies_pre, forces, cur,
                   step, evals, locals, excluded, kinetic, potential, e_initial,
                   e_final, init_time, sim_time, result, energy_calls,
                   visited, trace, seeded, run, first, pair_evals>>

\* Lines 121-132: one body of update_velocities
UpdateVelocity ==
    /\ pc = "velocities" /\ error = "none"
    /\ k < LenOf(bodies)
    /\ IF bodies[k].mass = 0
       THEN /\ error' = "ZeroDivisionError"
            /\ UNCHANGED <<bodies, k>>
       ELSE /\ bodies' = [bodies EXCEPT ![k] = NewVelocity(bodies[k], forces[k], dt)]
            /\ k' = k + 1
            /\ error' = error
    /\ UNCHANGED <<num_bodies, num_steps, dt, pc, bodies0, bodies_pre, forces, cur, step,
                   evals, locals, excluded, kinetic, potential, e_initial, e_final,
                   init_time, sim_time, result, energy_calls,
                   visited, trace, seeded, run, first, pair_evals>>

\* VelocitiesReturn leaving update_velocities before its last body
VelocitiesReturnEarly ==
    /\ pc = "velocities" /\ error = "none"
    /\ k = LenOf(bodies) - 1
    /\ k' = 0
    /\ pc' = "positions"
    /\ UNCHANGED <<num_bodies, num_steps, dt, error, bodies, bodies0, bodies_pre, forces, cur,
                   step, evals, locals, excluded, kinetic, potential, e_initial,
                   e_final, init_time, sim_time, result, energy_calls,
                   visited, trace, seeded, run, first, pair_evals>>

\* Line 213: update_velocities returns, update_positions starts
VelocitiesReturn ==
    /\ pc = "velocities" /\ error = "none"
    /\ k = LenOf(bodies)
    /\ k' = 0
    /\ pc' = "positions"
    /\ UNCHANGED <<num_bodies, num_steps, dt, error, bodies, bodies0, bodies_pre, forces, cur,
                   step, evals, locals, excluded, kinetic, potential, e_initial,
                   e_final, init_time, sim_time, result, energy_calls,
                   visited, trace, seeded, run, first, pair_evals>>

\* Lines 139-142: one body of update_positions
UpdatePosition ==
    /\ pc = "positions" /\ error = "none"
    /\ k < LenOf(bodies)
    /\ bodies' = [bodies EXCEPT ![k] = NewPosition(bodies[k], dt)]
    /\ k' = k + 1
    /\ UNCHANGED <<num_bodies, num_steps, dt, pc, error, bodies0, bodies_pre, forces, cur,
                   step, evals, locals, excluded, kinetic, potential, e_initial,
                   e_final, init_time, sim_time, result, energy_calls,
                   visited, trace, seeded, run, first, pair_evals>>

\* Lines 215-220: update_positions returns; the progress report of every tenth
\* step divides by the elapsed clock time; the step is complete
StepEnd ==
    /\ pc = "positions" /\ error = "none"
    /\ k = LenOf(bodies)
    /\ IF (step + 1) % ProgressEvery = 0
       THEN \E elapsed \in 0..MaxTick :
               IF elapsed = 0
               THEN /\ error' = "ZeroDivisionError"
                    /\ UNCHANGED <<pc, step, trace>>
               ELSE /\ step' = step + 1
                    /\ trace' = Append(trace, bodies)
                    /\ pc' = AfterStep
                    /\ error' = error
       ELSE /\ step' = step + 1
            /\ trace' = Append(trace, bodies)
            /\ pc' = AfterStep
            /\ error' = error
    /\ UNCHANGED <<num_bodies, num_steps, dt, bodies, bodies0, bodies_pre, forces, cur, k,
                   evals, locals, excluded, kinetic, potential, e_initial, e_final,
                   init_time, sim_time, result, energy_calls, visited, seeded, run, first,
                   pair_evals>>

\* Lines 223-257: the energy error, the summary and the returned dictionary
Summary ==
    /\ pc = "summary" /\ error = "none"
    /\ LET total_time == init_time + sim_time
       IN IF e_initial.total = 0 \/ total_time = 0 \/ sim_time = 0
          THEN /\ error' = "ZeroDivisionError"
               /\ UNCHANGED <<pc, result>>
          ELSE /\ result' =
                    [returned |-> TRUE,
                     num_bodies |-> num_bodies,
                     num_steps |-> num_steps,
                     total_time |-> total_time,
                     init_time |-> init_time,
                     sim_time |-> sim_time,
                     steps_per_sec |-> FDiv(num_steps, sim_time),
                     energy_initial |-> e_initial.total,
                     energy_final |-> e_final.total,
                     energy_error_percent |->
                         FDiv(Abs(e_final.total - e_initial.total),
                              Abs(e_initial.total)) * 100]
               /\ pc' = "done"
               /\ error' = error
    /\ UNCHANGED <<num_bodies, num_steps, dt, bodies, bodies0, bodies_pre, forces, cur, k,
                   step, evals, locals, excluded, kinetic, potential, e_initial,
                   e_final, init_time, sim_time,
                   energy_calls, visited, trace, seeded, run, first, pair_evals>>

Next ==
    \/ Initialize
    \/ EnergyBegin("energy_initial", "energy_initial_pairs")
    \/ EnergyPair("energy_initial_pairs")
    \/ EnergyInitialReturn
    \/ StepBegin
    \/ ForcePair
    \/ ForcesReturn
    \/ UpdateVelocity
    \/ VelocitiesReturn
    \/ UpdatePosition
    \/ StepEnd
    \/ LoopEnd
    \/ EnergyBegin("energy_final", "energy_final_pairs")
    \/ EnergyPair("energy_final_pairs")
    \/ EnergyFinalReturn
    \/ Summary

Spec == Init /\ [][Next]_vars

---------------------------------------------------------------------------
(* run_simulation called twice in one process with the same arguments *)

\* The first call has returned and the caller calls run_simulation again with
\* the same arguments.  The locals of the first call are gone; of the module's
\* state only the random generator outlives the call.
Restart ==
    /\ run = 1
    /\ pc = "done" /\ error = "none"
    /\ first' = [recorded |-> TRUE, bodies0 |-> bodies0, trace |-> trace,
                 bodies |-> bodies, e_initial |-> e_initial, e_final |-> e_final]
    /\ run' = 2
    /\ pc' = "start"
    /\ bodies' = <<>>
    /\ bodies0' = <<>>
    /\ bodies_pre' = <<>>
    /\ forces' = <<>>
    /\ cur' = <<0, 0>>
    /\ k' = 0
    /\ step' = 0
    /\ evals' = 0
    /\ locals' = NoLocals
    /\ excluded' = {}
    /\ kinetic' = 0
    /\ potential' = 0
    /\ e_initial' = NoSample
    /\ e_final' = NoSample
    /\ init_time' = 0
    /\ sim_time' = 0
    /\ result' = NoResult
    /\ energy_calls' = 0
    /\ visited' = <<>>
    /\ trace' = <<>>
    /\ pair_evals' = 0
    /\ UNCHANGED <<num_bodies, num_steps, dt, error, seeded>>

TwoRunsNext ==
    \/ Next
    \/ Restart

TwoRunsSpec == Init /\ [][TwoRunsNext]_vars

---------------------------------------------------------------------------
(* compute_forces called on any list of bodies *)

\* The bodies of the lists compute_forces is called on
KernelBodies == {Sun} \cup {Orbiter(d) : d \in Draws}

\* A caller holds a list of 0..MaxBodies bodies and is about to call
\* compute_forces on it, as line 207 does
ForceInit ==
    /\ num_bodies \in 0..MaxBodies
    /\ num_steps = 1
    /\ dt = 1
    /\ pc = "loop"
    /\ error = "none"
    /\ bodies \in [0..(num_bodies - 1) -> KernelBodies]
    /\ bodies0 = bodies
    /\ bodies_pre = <<>>
    /\ forces = <<>>
    /\ cur = <<0, 0>>
    /\ k = 0
    /\ step = 0
    /\ evals = 0
    /\ locals = NoLocals
    /\ excluded = {}
    /\ kinetic = 0
    /\ potential = 0
    /\ e_initial = NoSample
    /\ e_final = NoSample
    /\ init_time = 0
    /\ sim_time = 0
    /\ result = NoResult
    /\ energy_calls = 0
    /\ visited = <<>>
    /\ trace = <<>>
    /\ seeded = {}
    /\ run = 1
    /\ first = NoFirst
    /\ pair_evals = 0

\* The call, its pair loop and its return
ForceNext ==
    \/ StepBegin
    \/ ForcePair
    \/ ForcesReturn

ForceSpec == ForceInit /\ [][ForceNext]_vars

---------------------------------------------------------------------------
(* update_velocities and update_positions called on any bodies, accumulator and dt *)

\* The bodies of the lists the integrator is called on: at rest and moving,
\* of the three masses
IntegratorBodies ==
    {Sun,
     Orbiter([radius |-> 1, angle |-> <<0, 1>>, mass |-> 1]),
     Orbiter([radius |-> 1, angle |-> <<1, 0>>, mass |-> 2])}

\* The entries of the accumulators the integrator is called on
IntegratorForces == {<<0, 0, 0>>, <<3, -2, 0>>, <<-1, 0, 5>>}

\* A caller holds a list of 0..MaxBodies bodies, an accumulator of that length
\* and a dt, and is about to call update_velocities and then update_positions,
\* as lines 210 and 213 do
IntegratorInit ==
    /\ num_bodies \in 0..MaxBodies
    /\ num_steps = 1
    /\ dt \in Dts
    /\ pc = "velocities"
    /\ error = "none"
    /\ bodies \in [0..(num_bodies - 1) -> IntegratorBodies]
    /\ bodies0 = bodies
    /\ bodies_pre = bodies
    /\ forces \in [0..(num_bodies - 1) -> IntegratorForces]
    /\ cur = PairsDone(num_bodies)
    /\ k = 0
    /\ step = 0
    /\ evals = 0
    /\ locals = NoLocals
    /\ excluded = {}
    /\ kinetic = 0
    /\ potential = 0
    /\ e_initial = NoSample
    /\ e_final = NoSample
    /\ init_time = 0
    /\ sim_time = 0
    /\ result = NoResult
    /\ energy_calls = 0
    /\ visited = <<>>
    /\ trace = <<>>
    /\ seeded = {}
    /\ run = 1
    /\ first = NoFirst
    /\ pair_evals = 0

\* The two calls, body by body, and the end of the step
IntegratorNext ==
    \/ UpdateVelocity
    \/ VelocitiesReturn
    \/ UpdatePosition
    \/ StepEnd

IntegratorSpec == IntegratorInit /\ [][IntegratorNext]_vars

---------------------------------------------------------------------------
(* The step loop run on any list of bodies *)

\* A caller holds a list of 0..MaxBodies bodies and runs the loop of lines
\* 205-213 on it, for 1..MaxSteps steps of a dt of Dts
StepsInit ==
    /\ num_bodies \in 0..MaxBodies
    /\ num_steps \in 1..MaxSteps
    /\ dt \in Dts
    /\ pc = "loop"
    /\ error = "none"
    /\ bodies \in [0..(num_bodies - 1) -> IntegratorBodies]
    /\ bodies0 = bodies
    /\ bodies_pre = <<>>
    /\ forces = <<>>
    /\ cur = <<0, 0>>
    /\ k = 0
    /\ step = 0
    /\ evals = 0
    /\ locals = NoLocals
    /\ excluded = {}
    /\ kinetic = 0
    /\ potential = 0
    /\ e_initial = NoSample
    /\ e_final = NoSample
    /\ init_time = 0
    /\ sim_time = 0
    /\ result = NoResult
    /\ energy_calls = 0
    /\ visited = <<>>
    /\ trace = <<>>
    /\ seeded = {}
    /\ run = 1
    /\ first = NoFirst
    /\ pair_evals = 0

\* The loop body: compute_forces, update_velocities, update_positions
StepsNext ==
    \/ StepBegin
    \/ ForcePair
    \/ ForcesReturn
    \/ UpdateVelocity
    \/ VelocitiesReturn
    \/ UpdatePosition
    \/ StepEnd

StepsSpec == StepsInit /\ [][StepsNext]_vars

---------------------------------------------------------------------------
(* Properties *)

N == LenOf(bodies)

\* The masses of the pair compute_forces evaluated last
PairMasses == bodies[locals.i].mass * bodies[locals.j].mass

\* A pair has been evaluated by the running force pass
PairEvaluated == pc = "forces" /\ error = "none" /\ evals >= 1

\* C1: for num_steps >= 0 the run passes through Uninitialized, Ready, Running,
\* Completed in that order and skips none; once the step loop is left, exactly
\* num_steps iterations have been completed; after their creation the bodies
\* change only inside Running.
C1_PhasesAndStepCount ==
    /\ Phase = "Uninitialized"
    /\ [][PhaseRank' \in {PhaseRank, PhaseRank + 1}]_vars
    /\ [][(PhaseRank >= 1 /\ bodies' # bodies)
            => (Phase = "Running" /\ Phase' = "Running")]_vars
    /\ []((num_steps >= 0 /\ Phase = "Completed") => step = num_steps)

\* A run of MaxSteps steps that returned, with bodies that moved
C1_Witness ==
    /\ pc = "done"
    /\ num_steps = MaxSteps
    /\ step = MaxSteps
    /\ bodies # bodies0

\* C2: with num_steps < 0, dt <= 0 or N < 1 the run is rejected before any
\* simulation work: no force pass, no integration, no normal return.
C2_InvalidConfigRejected ==
    (num_steps < 0 \/ dt <= 0 \/ num_bodies < 1)
        => pc \notin {"forces", "velocities", "positions", "done"}

\* C3: with N >= 1, num_steps >= 0 and dt > 0 the run raises no error (stated
\* for the runs whose clock advanced between its readings, so that the elapsed
\* times are not what is at fault).
C3_ValidConfigRaisesNothing ==
    (num_bodies >= 1 /\ num_steps >= 0 /\ dt > 0 /\ (pc = "summary" => sim_time > 0))
        => error = "none"

\* C4: no body is written while a force pass runs; a body is written only by
\* update_velocities and update_positions, after a force pass that evaluated
\* every pair, and the accumulator is not written in between.
C4_ForcePassBeforeWrites ==
    /\ [][pc = "forces" => bodies' = bodies]_vars
    /\ [][(PhaseRank >= 1 /\ bodies' # bodies)
            => /\ pc \in {"velocities", "positions"}
               /\ cur = PairsDone(N)
               /\ 2 * evals = N * (N - 1)
               /\ forces' = forces]_vars

\* The first velocity is being written after a pass over the three pairs
C4_Witness ==
    /\ pc = "velocities"
    /\ k = 1
    /\ N = 3
    /\ evals = 3
    /\ bodies # bodies_pre

\* C5: when a step is complete, every body has
\* velocity = old velocity + (F / mass) * dt and
\* position = old position + new velocity * dt, old being the state the step
\* began with and F the accumulator of the step, which is compute_forces of
\* that state.
C5_SemiImplicitEuler ==
    (pc = "loop" /\ step >= 1) =>
      /\ forces = compute_forces(bodies_pre)
      /\ \A b \in DOMAIN bodies :
            LET old == bodies_pre[b]
                new == bodies[b]
                vx == old.vx + FDiv(forces[b][1], old.mass) * dt
                vy == old.vy + FDiv(forces[b][2], old.mass) * dt
                vz == old.vz + FDiv(forces[b][3], old.mass) * dt
            IN /\ new.vx = vx /\ new.vy = vy /\ new.vz = vz
               /\ new.x = old.x + vx * dt
               /\ new.y = old.y + vy * dt
               /\ new.z = old.z + vz * dt
               /\ new.mass = old.mass

\* A completed step that changed a velocity, so that the old and the new velocity
\* give different positions
C5_Witness ==
    /\ pc = "loop"
    /\ step >= 1
    /\ dt > 0
    /\ \E b \in DOMAIN bodies :
          /\ bodies[b].vx # bodies_pre[b].vx
          /\ bodies[b].x # bodies_pre[b].x + bodies_pre[b].vx * dt

\* C6: evaluating the pair (i, j) changes accumulator[i] and accumulator[j] by
\* vectors that are exact negations of each other, and no other entry.
C6_EqualAndOpposite ==
    [][(pc = "forces" /\ evals' = evals + 1) =>
          LET i == cur[1]
              j == cur[2]
          IN /\ i < j
             /\ \A c \in 1..3 :
                   forces'[i][c] - forces[i][c] = -(forces'[j][c] - forces[j][c])
             /\ \A b \in DOMAIN forces \ {i, j} : forces'[b] = forces[b]]_vars

\* A pair was evaluated whose force is not zero
C6_Witness ==
    /\ PairEvaluated
    /\ locals.fx # 0
    /\ forces[locals.i][1] # 0

\* C7: no pair is clamped and counted by the force pass while the energy pass
\* over the same body state left it out of the potential.  (The first force
\* pass reads the bodies the pre-run energy pass read.)
C7_SameSingularityPolicy ==
    (PairEvaluated /\ step = 0)
        => ~(locals.clamped /\ <<locals.i, locals.j>> \in excluded)

\* C8: for a clamped pair the force applied to body i points along the
\* displacement and its magnitude is G * m_i * m_j / r_min ** 2.
C8_ClampedForceMagnitude ==
    (PairEvaluated /\ locals.clamped) =>
        /\ Sq(locals.fx) + Sq(locals.fy) + Sq(locals.fz)
              = Sq(FDiv(G * PairMasses, Sq(RMin)))
        /\ locals.fx * locals.dy = locals.fy * locals.dx
        /\ locals.fx * locals.dz = locals.fz * locals.dx
        /\ locals.fy * locals.dz = locals.fz * locals.dy

\* C9: every divisor of compute_forces is at least the softening floor, the
\* pass raises no ZeroDivisionError, and every component of a pair's force and
\* of the accumulator is bounded by the force at the floor.
C9_DivisorsAtLeastFloor ==
    /\ RMin > 0
    /\ pc = "forces" => error = "none"
    /\ locals.i >= 0 =>
          /\ locals.r >= RMin
          /\ locals.r_squared >= Sq(RMin)
          /\ \A f \in {locals.fx, locals.fy, locals.fz} :
                Abs(f) <= FDiv(G * PairMasses, Sq(RMin))
    /\ \A b \in DOMAIN forces : \A c \in 1..3 :
          Abs(forces[b][c]) <= evals * FDiv(G * Sq(SunMass), Sq(RMin))

\* The pair evaluated last is two bodies at the same position
C9_Witness ==
    /\ PairEvaluated
    /\ locals.clamped
    /\ locals.dx = 0 /\ locals.dy = 0 /\ locals.dz = 0
    /\ bodies[locals.i].x = bodies[locals.j].x

\* C10: with num_steps = 0 the bodies are, once the post-run sample is taken and
\* from then on, those create_solar_system returned, and the two samples are equal.
C10_ZeroStepsIdempotent ==
    (num_steps = 0 /\ e_final.taken) =>
        /\ bodies = bodies0
        /\ e_final = e_initial
        /\ step = 0

\* A run of zero steps over two or more bodies that returned
C10_Witness ==
    /\ num_steps = 0
    /\ pc = "done"
    /\ N >= 2
    /\ e_final.taken
    /\ result.energy_error_percent = 0

\* A configuration the specification calls valid
ValidConfig == num_bodies >= 1 /\ num_steps >= 0 /\ dt > 0

\* C11: for a valid configuration the body list has exactly num_bodies entries,
\* at the indices 0..num_bodies-1, from its creation on; no step of the run adds,
\* removes or moves an entry, and the entry at an index keeps its mass, so that
\* index i is the same body throughout.
C11_BodyCountFixed ==
    /\ []((ValidConfig /\ pc # "start") =>
            /\ DOMAIN bodies = 0..(num_bodies - 1)
            /\ LenOf(bodies) = num_bodies
            /\ DOMAIN bodies0 = DOMAIN bodies
            /\ \A b \in DOMAIN bodies : bodies[b].mass = bodies0[b].mass
            /\ \A m \in 1..Len(trace) : DOMAIN trace[m] = DOMAIN bodies)
    /\ [][(ValidConfig /\ pc # "start") => DOMAIN bodies' = DOMAIN bodies]_vars

\* A run of MaxSteps steps over MaxBodies bodies of different masses that returned
C11_Witness ==
    /\ ValidConfig
    /\ pc = "done"
    /\ num_bodies = MaxBodies
    /\ LenOf(bodies) = MaxBodies
    /\ step = MaxSteps
    /\ bodies # bodies0
    /\ bodies[1].mass # bodies[2].mass

\* The positions of run_simulation inside a call of compute_total_energy
EnergyPcs ==
    {"energy_initial", "energy_initial_pairs", "energy_final", "energy_final_pairs"}

\* C12: no step of a call of compute_total_energy changes a body, the step
\* counter, the accumulator or the arguments of the run, and none changes the
\* driver's phase before the call returns to the driver.
C12_EnergyReadsOnly ==
    /\ [][(pc \in EnergyPcs)
            => /\ bodies' = bodies
               /\ step' = step
               /\ forces' = forces
               /\ UNCHANGED <<num_bodies, num_steps, dt, pair_evals>>
               /\ trace' = trace]_vars
    /\ [][(pc \in EnergyPcs /\ pc' \in EnergyPcs) => Phase' = Phase]_vars

\* The post-run sample over the three pairs of bodies that two steps have moved
C12_Witness ==
    /\ pc = "energy_final_pairs"
    /\ cur = PairsDone(N)
    /\ N = 3
    /\ Len(visited) = 3
    /\ step = MaxSteps
    /\ bodies # bodies0
    /\ potential # 0

\* C13: compute_total_energy is called exactly twice in a run: once after the
\* bodies are created and before the first step, once after the step loop is
\* left; no call begins anywhere else, in particular none between two steps.
C13_TwoCheckpoints ==
    /\ [](pc \in {"start", "energy_initial"} => energy_calls = 0)
    /\ [](pc \in {"energy_initial_pairs", "loop", "forces", "velocities", "positions",
                  "energy_final"} => energy_calls = 1)
    /\ [](pc \in {"energy_final_pairs", "summary", "done"} => energy_calls = 2)
    /\ [](pc = "energy_initial_pairs" =>
            (step = 0 /\ trace = <<>> /\ bodies = bodies0))
    /\ [](pc = "energy_final_pairs" =>
            /\ ~LoopContinues(step, num_steps)
            /\ Len(trace) = step
            /\ num_steps >= 0 => step = num_steps)
    /\ [][energy_calls' # energy_calls =>
            /\ pc \in {"energy_initial", "energy_final"}
            /\ energy_calls' = energy_calls + 1
            /\ step' = step]_vars

\* A run of MaxSteps steps that returned after its two samples
C13_Witness ==
    /\ pc = "done"
    /\ energy_calls = 2
    /\ Len(trace) = MaxSteps
    /\ e_initial.taken /\ e_final.taken
    /\ e_initial # e_final

\* C14: when a force pass starts, the accumulator has one entry per body and
\* every entry is the zero vector; at every point of the pass the accumulator
\* holds the contributions of the pairs evaluated so far on the bodies of the
\* step's start and nothing else, so that the accumulator the integrator
\* consumes is compute_forces of the bodies the step began with.
C14_FreshAccumulator ==
    /\ (pc = "forces" /\ evals = 0) =>
          /\ DOMAIN forces = DOMAIN bodies
          /\ \A b \in DOMAIN forces : forces[b] = <<0, 0, 0>>
    /\ (pc = "forces" /\ error = "none") =>
          /\ bodies = bodies_pre
          /\ ForcePassFrom(bodies, forces, cur) = compute_forces(bodies_pre)
    /\ (pc \in {"velocities", "positions"}) =>
          /\ LenOf(forces) = N
          /\ forces = compute_forces(bodies_pre)

\* A force pass starts after a step whose pass accumulated forces that are not zero
C14_Witness ==
    /\ pc = "forces"
    /\ evals = 0
    /\ step >= 1
    /\ N = 3
    /\ locals.fx # 0
    /\ forces = ZeroForces(3)

\* <<i, j>> comes before <<i2, j2>> in lexicographic order
LexBefore(p, q) == p[1] < q[1] \/ (p[1] = q[1] /\ p[2] < q[2])

\* C15: the pairs a pass of the force loop or of the potential loop evaluates
\* are pairs (i, j) of body indices with i < j, in strictly ascending
\* lexicographic order, hence none twice, none of the form (i, i) and none
\* with i > j; a finished pass has evaluated every such pair, N(N-1)/2 in all.
C15_EveryPairOnceInOrder ==
    /\ \A m \in 1..Len(visited) :
          /\ 0 <= visited[m][1]
          /\ visited[m][1] < visited[m][2]
          /\ visited[m][2] < N
    /\ \A m \in 1..(Len(visited) - 1) : LexBefore(visited[m], visited[m + 1])
    /\ cur # PairsDone(N) =>
          \A m \in 1..Len(visited) : LexBefore(visited[m], cur)
    /\ cur = PairsDone(N) =>
          /\ 2 * Len(visited) = N * (N - 1)
          /\ \A i \in DOMAIN bodies : \A j \in DOMAIN bodies :
                i < j => \E m \in 1..Len(visited) : visited[m] = <<i, j>>

\* A force pass over three bodies has ended
C15_Witness ==
    /\ pc = "forces"
    /\ cur = PairsDone(N)
    /\ N = 3
    /\ visited = << <<0, 1>>, <<0, 2>>, <<1, 2>> >>
    /\ evals = 3

\* C16: compute_forces on a list of fewer than two bodies evaluates no pair,
\* raises nothing and returns an accumulator that has one entry per body,
\* every entry the zero vector.
C16_FewerThanTwoBodies ==
    (N < 2 /\ pc \in {"forces", "velocities"}) =>
        /\ error = "none"
        /\ cur = PairsDone(N)
        /\ visited = <<>>
        /\ DOMAIN forces = DOMAIN bodies
        /\ LenOf(forces) = N
        /\ \A b \in DOMAIN forces : forces[b] = <<0, 0, 0>>
        /\ compute_forces(bodies) = forces

\* compute_forces has returned for the empty list
C16_Witness ==
    /\ pc = "velocities"
    /\ N = 0
    /\ LenOf(forces) = 0
    /\ error = "none"

\* C17: a second call of run_simulation with the arguments of the first
\* creates the bodies the first created, has after each of its steps the
\* bodies the first had after that step, and takes the energy samples the
\* first took.
C17_SameRunTwice ==
    run = 2 =>
        /\ pc # "start" => bodies0 = first.bodies0
        /\ Len(trace) <= Len(first.trace)
        /\ \A m \in 1..Len(trace) : trace[m] = first.trace[m]
        /\ e_initial.taken => e_initial = first.e_initial
        /\ e_final.taken =>
              /\ e_final = first.e_final
              /\ trace = first.trace
              /\ bodies = first.bodies

\* The second of two calls has returned after MaxSteps steps over three bodies
C17_Witness ==
    /\ run = 2
    /\ pc = "done"
    /\ N = 3
    /\ Len(trace) = MaxSteps
    /\ bodies # bodies0
    /\ e_final # e_initial
    /\ first.e_final = e_final

PerBody(b, f, h) == NewPosition(NewVelocity(b, f, h), h)

PerBodyScheme(bs, fs, h) == [b \in DOMAIN bs |-> PerBody(bs[b], fs[b], h)]

\* C20: when update_velocities has passed over every body and update_positions
\* after it, the bodies are those the per-body scheme gives for the bodies, the
\* accumulator and the dt the two passes were called with; while the second
\* pass runs, the bodies it has passed are already those of the scheme.
C20_TwoPassesAsPerBody ==
    /\ (pc = "loop" /\ step >= 1) => bodies = PerBodyScheme(bodies_pre, forces, dt)
    /\ (pc = "positions" /\ error = "none") =>
          \A b \in DOMAIN bodies :
             b < k => bodies[b] = PerBody(bodies_pre[b], forces[b], dt)

\* The two passes have ended over three bodies, the last of which changed its
\* velocity and went where the new velocity took it
C20_Witness ==
    /\ pc = "loop"
    /\ step = 1
    /\ N = 3
    /\ dt # 0
    /\ bodies[2].vx # bodies_pre[2].vx
    /\ bodies[2].x # bodies_pre[2].x + bodies_pre[2].vx * dt
    /\ bodies[0] # bodies_pre[0]

\* C21: from the creation of the bodies on, every body's mass is greater than
\* zero and is the mass the body was created with; no step writes a mass; and
\* update_velocities, which divides by the mass, raises nothing.
C21_MassPositiveAndFixed ==
    /\ [](pc # "start" =>
            \A b \in DOMAIN bodies :
               /\ bodies[b].mass > 0
               /\ bodies[b].mass = bodies0[b].mass)
    /\ [](pc = "velocities" => error = "none")
    /\ [][(pc # "start") =>
            \A b \in DOMAIN bodies : bodies'[b].mass = bodies[b].mass]_vars

\* update_velocities has divided by the mass of each of three bodies in a
\* step after the first
C21_Witness ==
    /\ pc = "velocities"
    /\ error = "none"
    /\ k = N
    /\ N = 3
    /\ step >= 1
    /\ bodies # bodies_pre
    /\ \E b \in DOMAIN bodies : bodies[b].mass # SunMass

\* C22: when run_simulation has returned, the 'Force calculations' figure it
\* reported is the number of pair evaluations compute_forces made in the run.
C22_ForceCalculationsFigure ==
    pc = "done" => ForceCalculations = pair_evals

\* C23: the list create_solar_system(num_bodies) returned has exactly
\* num_bodies entries for every num_bodies >= 0, and its first entry, when
\* there is one, is the central body at rest at the origin.
C23_ExactlyNumBodies ==
    (pc # "start" /\ num_bodies >= 0) =>
        /\ LenOf(bodies0) = num_bodies
        /\ DOMAIN bodies0 = 0..(num_bodies - 1)
        /\ LenOf(bodies0) >= 1 => bodies0[0] = Body(0, 0, 0, 0, 0, 0, SunMass)

Position(b) == <<b.x, b.y, b.z>>

Velocity(b) == <<b.vx, b.vy, b.vz>>

\* C24: a step of compute_forces changes no field of any body; a step of
\* update_velocities changes no position, no mass and no accumulator entry,
\* and only the velocity of the body it is at, to a value given by that
\* body's velocity and mass, its accumulator entry and dt; a step of
\* update_positions changes no velocity, no mass and no accumulator entry, and
\* only the position of the body it is at, to a value given by that body's
\* position and velocity and dt.
C24_OwnFieldsOnly ==
    /\ [][(pc = "forces") => bodies' = bodies]_vars
    /\ [][(pc = "velocities") =>
            /\ forces' = forces
            /\ \A b \in DOMAIN bodies :
                  /\ Position(bodies'[b]) = Position(bodies[b])
                  /\ bodies'[b].mass = bodies[b].mass
                  /\ b # k => bodies'[b] = bodies[b]
            /\ k' = k + 1 =>
                  Velocity(bodies'[k]) =
                     <<bodies[k].vx + FDiv(forces[k][1], bodies[k].mass) * dt,
                       bodies[k].vy + FDiv(forces[k][2], bodies[k].mass) * dt,
                       bodies[k].vz + FDiv(forces[k][3], bodies[k].mass) * dt>>]_vars
    /\ [][(pc = "positions") =>
            /\ forces' = forces
            /\ \A b \in DOMAIN bodies :
                  /\ Velocity(bodies'[b]) = Velocity(bodies[b])
                  /\ bodies'[b].mass = bodies[b].mass
                  /\ b # k => bodies'[b] = bodies[b]
            /\ k' = k + 1 =>
                  Position(bodies'[k]) =
                     <<bodies[k].x + bodies[k].vx * dt,
                       bodies[k].y + bodies[k].vy * dt,
                       bodies[k].z + bodies[k].vz * dt>>]_vars

\* update_positions is between two of three bodies: the first has moved, the
\* last has its new velocity and its old position
C24_Witness ==
    /\ pc = "positions"
    /\ N = 3
    /\ k = 1
    /\ Position(bodies[0]) # Position(bodies_pre[0])
    /\ Velocity(bodies[2]) # Velocity(bodies_pre[2])
    /\ Position(bodies[2]) = Position(bodies_pre[2])

RECURSIVE SumTo(_, _)
\* t[0] + ... + t[n - 1]
SumTo(t, n) == IF n = 0 THEN 0 ELSE SumTo(t, n - 1) + t[n - 1]

\* The sum of the accumulator's entries, by component
TotalForce(fs) ==
    [c \in 1..3 |-> SumTo([b \in DOMAIN fs |-> fs[b][c]], LenOf(fs))]

\* The sum over the bodies of mass * velocity, by component
Momentum(bs) ==
    [c \in 1..3 |-> SumTo([b \in DOMAIN bs |-> bs[b].mass * Velocity(bs[b])[c]],
                          LenOf(bs))]

\* The divisions force / mass of the step had no remainder, so that the
\* model's rounded quotient is the exact one
ExactDivisions ==
    \A b \in DOMAIN forces : \A c \in 1..3 : forces[b][c] % bodies_pre[b].mass = 0

\* C25: during and after every force pass the entries of the accumulator sum
\* to the zero vector in each component; and a step whose divisions
\* force / mass are exact leaves the total momentum what it was when the step
\* began.
C25_MomentumConserved ==
    /\ (pc \in {"forces", "velocities", "positions"} /\ error = "none")
          => TotalForce(forces) = <<0, 0, 0>>
    /\ (pc = "loop" /\ step >= 1 /\ ExactDivisions)
          => Momentum(bodies) = Momentum(bodies_pre)

\* A step over three bodies with exact divisions and forces that are not
\* zero has changed velocities
C25_Witness ==
    /\ pc = "loop"
    /\ step >= 1
    /\ N = 3
    /\ dt > 0
    /\ ExactDivisions
    /\ forces[0] # <<0, 0, 0>>
    /\ forces[2][3] # 0
    /\ Velocity(bodies[0]) # Velocity(bodies_pre[0])
    /\ Momentum(bodies) # <<0, 0, 0>>

\* The separation of the pair the running pair loop is at
CurDistance == Distance(bodies[cur[1]], bodies[cur[2]])

\* C26: the potential loop leaves the potential as it is for a pair whose
\* separation is at most the floor; the force loop changes the accumulator
\* entries of both bodies of such a pair when their positions differ; and a
\* pair whose separation is exactly the floor is not clamped by the force
\* loop.
C26_ExcludedButForced ==
    /\ [][(pc \in {"energy_initial_pairs", "energy_final_pairs"}
              /\ cur' # cur /\ CurDistance <= RMin)
            => (potential' = potential /\ cur \in excluded')]_vars
    /\ [][(pc = "forces" /\ evals' = evals + 1 /\ CurDistance <= RMin
              /\ Position(bodies[cur[1]]) # Position(bodies[cur[2]]))
            => /\ forces'[cur[1]] # forces[cur[1]]
               /\ forces'[cur[2]] # forces[cur[2]]
               /\ <<locals'.fx, locals'.fy, locals'.fz>> # <<0, 0, 0>>]_vars
    /\ [][(pc = "forces" /\ evals' = evals + 1 /\ CurDistance = RMin)
            => (~locals'.clamped /\ locals'.r = RMin)]_vars

\* The force pass has applied, unclamped, the force of a pair at the floor
\* that the energy pass over the same bodies left out
C26_Witness ==
    /\ PairEvaluated
    /\ step = 0
    /\ locals.r = RMin
    /\ ~locals.clamped
    /\ <<locals.i, locals.j>> \in excluded
    /\ <<locals.fx, locals.fy, locals.fz>> # <<0, 0, 0>>
    /\ e_initial.potential = 0

\* The run began with two bodies and no other, at one position with one velocity
BeganCoincident ==
    /\ LenOf(bodies0) = 2
    /\ Position(bodies0[0]) = Position(bodies0[1])
    /\ Velocity(bodies0[0]) = Velocity(bodies0[1])

\* C27: a pair of bodies at the same position changes neither of its two
\* accumulator entries, its force being the zero vector; and two bodies that
\* begin alone at one position with one velocity are at one position with one
\* velocity after every step.
C27_CoincidentStayTogether ==
    /\ [][(pc = "forces" /\ cur' # cur
              /\ Position(bodies[cur[1]]) = Position(bodies[cur[2]]))
            => /\ error' = "none"
               /\ forces'[cur[1]] = forces[cur[1]]
               /\ forces'[cur[2]] = forces[cur[2]]
               /\ <<locals'.fx, locals'.fy, locals'.fz>> = <<0, 0, 0>>]_vars
    /\ []((BeganCoincident /\ pc = "loop") =>
            /\ Position(bodies[0]) = Position(bodies[1])
            /\ Velocity(bodies[0]) = Velocity(bodies[1])
            /\ Velocity(bodies[0]) = Velocity(bodies0[0]))

\* Two bodies that began alone at one position, moving, have made MaxSteps steps
C27_Witness ==
    /\ BeganCoincident
    /\ pc = "loop"
    /\ step = MaxSteps
    /\ dt # 0
    /\ Velocity(bodies0[0]) # <<0, 0, 0>>
    /\ Position(bodies[0]) # Position(bodies0[0])
    /\ Position(bodies[0]) = Position(bodies[1])

\* C28: with num_steps < 0 the run makes no step: no force pass and no
\* integration begins, no pair is evaluated, the bodies stay those that were
\* created, the post-run sample equals the pre-run sample, and nothing is
\* raised before the post-run sample is taken.
C28_NegativeStepsRunNothing ==
    num_steps < 0 =>
        /\ pc \notin {"forces", "velocities", "positions"}
        /\ step = 0
        /\ trace = <<>>
        /\ pair_evals = 0
        /\ pc # "start" => bodies = bodies0
        /\ e_final.taken => (e_initial.taken /\ e_final = e_initial)
        /\ error # "none" => (pc = "summary" /\ e_final.taken)

\* A run of a negative number of steps over three bodies has returned
C28_Witness ==
    /\ num_steps < 0
    /\ pc = "done"
    /\ N = 3
    /\ energy_calls = 2
    /\ e_final = e_initial
    /\ e_final.total # 0
    /\ result.num_steps < 0

\* C29: a pair is clamped by the force pass exactly when its separation is
\* below 1000 metres.
C29_FloorIsOneKilometre ==
    PairEvaluated =>
        (locals.clamped <=>
            Distance(bodies[locals.i], bodies[locals.j]) * MetresPerUnit < OneKilometre)

====
